---- MODULE Spec2Model ----
(***************************************************************************)
(* Model of the product import pipeline and the product store of           *)
(* nest-products-api: ImportController.importFile, ProductsService and     *)
(* the unique index of ProductEntity (src/src/products/                    *)
(* products.controller.ts).                                                *)
(*                                                                         *)
(* Text is modelled as a sequence of one-character strings, so that trim,  *)
(* the price regex and Number() are computed character by character.      *)
(* Cyrillic header names are transliterated (the module is ASCII):         *)
(*   Artikul, Nazvanie tovara, Cena (rub.), Brend, Cvet, Strana.            *)
(* Any character that is not a digit, comma, dot or blank stands for a     *)
(* letter (Latin or Cyrillic): the code treats them alike.                 *)
(***************************************************************************)
EXTENDS Integers, Sequences, FiniteSets, TLC

(***************************************************************************)
(* JavaScript values                                                       *)
(***************************************************************************)

\* The JS value undefined, as a text-typed value no cell can equal
\* (a cell is a sequence of one-character strings).
Undefined == <<"undefined">>

\* Number(...) results are <<mantissa, exponent>>: mantissa / 10^exponent,
\* with no trailing fractional zero; NaN is the JS not-a-number.
NaN == <<-1, 0>>

\* The price of a product whose price is undefined (omitted).
NoPrice == <<-2, 0>>

Digits == {"0", "1", "2", "3", "4", "5", "6", "7", "8", "9"}

DigitVal(c) ==
  CASE c = "0" -> 0 [] c = "1" -> 1 [] c = "2" -> 2 [] c = "3" -> 3
    [] c = "4" -> 4 [] c = "5" -> 5 [] c = "6" -> 6 [] c = "7" -> 7
    [] c = "8" -> 8 [] c = "9" -> 9

\* Characters String.prototype.trim removes.
WhiteSpace == {" "}

\* JS truthiness of a cell value: undefined and "" are falsy.
Truthy(v) == v # Undefined /\ v # <<>>

RECURSIVE TrimStart(_)
TrimStart(s) ==
  IF s # <<>> /\ Head(s) \in WhiteSpace THEN TrimStart(Tail(s)) ELSE s

RECURSIVE TrimEnd(_)
TrimEnd(s) ==
  IF s # <<>> /\ s[Len(s)] \in WhiteSpace
    THEN TrimEnd(SubSeq(s, 1, Len(s) - 1))
    ELSE s

\* String.prototype.trim
Trim(s) == TrimEnd(TrimStart(s))

\* v?.toString().trim()
OptTrim(v) == IF v = Undefined THEN Undefined ELSE Trim(v)

(***************************************************************************)
(* Raw rows and alias lookups                                              *)
(***************************************************************************)

\* row[key]: the cell, or undefined when the row has no such column.
Cell(row, key) == IF key \in DOMAIN row THEN row[key] ELSE Undefined

\* row[k1] || row[k2] || ... || row[kn]: the first truthy operand, and the
\* last operand when none is truthy.
RECURSIVE OrChain(_, _)
OrChain(row, keys) ==
  IF Len(keys) = 1 \/ Truthy(Cell(row, Head(keys)))
    THEN Cell(row, Head(keys))
    ELSE OrChain(row, Tail(keys))

ArticleKeys == <<"Artikul", "artikul", "Article", "article", "SKU", "sku">>

NameKeys ==
  <<"Nazvanie tovara", "nazvanie tovara", "Nazvanie", "nazvanie",
    "Name", "name", "Product Name", "product name">>

PriceKeys == <<"Cena, rub.*", "Cena", "cena", "Price", "price">>

BrandKeys == <<"Brend", "brend", "Brand", "brand">>

ColorKeys == <<"Cvet", "cvet", "Color", "color">>

CountryKeys ==
  <<"Strana-izgotovitel", "strana-izgotovitel", "Strana", "strana",
    "Country", "country">>

\* const article = (row[...] || ...)?.toString().trim()
article(row) == OptTrim(OrChain(row, ArticleKeys))

\* const name = (row[...] || ...)?.toString().trim()
name(row) == OptTrim(OrChain(row, NameKeys))

\* (row[...] || ...)?.toString().trim() || undefined
OptionalField(row, keys) ==
  LET v == OptTrim(OrChain(row, keys))
  IN  IF Truthy(v) THEN v ELSE Undefined

brand(row) == OptionalField(row, BrandKeys)

color(row) == OptionalField(row, ColorKeys)

country(row) == OptionalField(row, CountryKeys)

\* if (!article || !name)
MissingArticleOrName(row) == ~Truthy(article(row)) \/ ~Truthy(name(row))

(***************************************************************************)
(* Price                                                                   *)
(***************************************************************************)

\* .replace(/[^\d.,]/g, ''): drop every character but digits, dot and comma.
RECURSIVE StripNonNumeric(_)
StripNonNumeric(s) ==
  IF s = <<>> THEN <<>>
  ELSE IF Head(s) \in Digits \cup {".", ","}
    THEN <<Head(s)>> \o StripNonNumeric(Tail(s))
    ELSE StripNonNumeric(Tail(s))

\* .replace(',', '.'): a string pattern replaces the first occurrence only.
RECURSIVE ReplaceFirstComma(_)
ReplaceFirstComma(s) ==
  IF s = <<>> THEN <<>>
  ELSE IF Head(s) = "," THEN <<".">> \o Tail(s)
  ELSE <<Head(s)>> \o ReplaceFirstComma(Tail(s))

\* priceStr = (row[...] || ...)?.toString().replace(...).replace(...)
priceStr(row) ==
  LET v == OrChain(row, PriceKeys)
  IN  IF v = Undefined THEN Undefined
      ELSE ReplaceFirstComma(StripNonNumeric(v))

AllDigits(s) == \A i \in 1..Len(s) : s[i] \in Digits

RECURSIVE DigitsValue(_)
DigitsValue(s) ==
  IF s = <<>> THEN 0
  ELSE DigitsValue(SubSeq(s, 1, Len(s) - 1)) * 10 + DigitVal(s[Len(s)])

RECURSIVE Normalized(_, _)
Normalized(m, e) ==
  IF e > 0 /\ m % 10 = 0 THEN Normalized(m \div 10, e - 1) ELSE <<m, e>>

DotPositions(s) == {i \in 1..Len(s) : s[i] = "."}

\* Number(s) for a text of digits, dots and commas (what the regex leaves):
\* "" is 0, "12", "12.", "12.5" and ".5" are decimal literals, anything else
\* (a second dot, a comma, a lone dot) is NaN.
Number(s) ==
  IF s = <<>> THEN <<0, 0>>
  ELSE IF AllDigits(s) THEN <<DigitsValue(s), 0>>
  ELSE IF Cardinality(DotPositions(s)) = 1
    THEN LET d == CHOOSE i \in DotPositions(s) : TRUE
             ip == SubSeq(s, 1, d - 1)
             fp == SubSeq(s, d + 1, Len(s))
         IN  IF AllDigits(ip) /\ AllDigits(fp) /\ Len(ip) + Len(fp) > 0
               THEN Normalized(DigitsValue(ip \o fp), Len(fp))
               ELSE NaN
  ELSE NaN

\* price = priceStr && !isNaN(Number(priceStr)) ? Number(priceStr) : undefined
price(row) ==
  LET ps == priceStr(row)
  IN  IF Truthy(ps) /\ Number(ps) # NaN THEN Number(ps) ELSE NoPrice

\* const productData: CreateProductDto = {...}
productData(row) ==
  [article |-> article(row), name |-> name(row), brand |-> brand(row),
   price |-> price(row), color |-> color(row), country |-> country(row)]

(***************************************************************************)
(* Bounds and inputs                                                       *)
(***************************************************************************)

\* Longest decoded file of the first import request.
MaxRows == 2

\* Longest decoded file of the second, concurrent import request.
MaxRowsSecond == 1

\* Store outages (a lookup or a save that raises) injected in one behaviour.
MaxFaults == 1

\* Direct create / update / delete requests served in one behaviour.
MaxClientOps == 1

\* Concurrent import requests.
Importers == {"i1", "i2"}

X1 == <<"X", "1">>

X2 == <<"X", "2">>

\* Raw rows as the decoder yields them (header -> cell).
RowA == [Artikul |-> X1, Name |-> <<"a">>]

RowB == [SKU |-> <<" ">> \o X2 \o <<" ">>, name |-> <<"b">>,
         Price |-> <<"1", ",", "5">>]

\* The same article as RowA with other fields.
RowC == [article |-> X1, Name |-> <<"c">>, Brand |-> <<"z">>]

\* No name column: rejected by normalization.
RowD == [Artikul |-> X2, Brand |-> <<"z">>]

RowSet == {RowA, RowB, RowC, RowD}

SeqsUpTo(S, n) == UNION {[1..k -> S] : k \in 0..n}

Files == SeqsUpTo(RowSet, MaxRows)

(***************************************************************************)
(* State                                                                   *)
(***************************************************************************)

VARIABLES
  store,       \* the products table: a set of ProductEntity records
  nextId,      \* the PrimaryGeneratedColumn sequence
  pc,          \* per import request: where importFile is suspended
  file,        \* per import request: the uploaded file (@UploadedFile)
  rows,        \* per import request: the rows decoding the buffer yields
  idx,         \* per import request: index of the row of the for loop
  results,     \* per import request: const results
  errors,      \* per import request: const errors
  duplicates,  \* per import request: const duplicates
               \* (each entry also records idx, the row that produced it)
  response,    \* per import request: what importFile returned
  calls,       \* history: the ProductsService calls each import issued
  added,       \* history: ids of the records each import inserted
  faultsLeft,  \* store outages that may still be injected
  cpc,         \* the direct (CRUD) request in flight: its position
  carg,        \* the direct request's arguments and locals
  opsLeft      \* direct requests that may still arrive

vars == <<store, nextId, pc, file, rows, idx, results, errors, duplicates,
          response, calls, added, faultsLeft, cpc, carg, opsLeft>>

importVars == <<pc, file, rows, idx, results, errors, duplicates, response,
                calls, added>>

clientVars == <<cpc, carg, opsLeft>>

NoResponse == [status |-> "pending"]

NoArg == [op |-> "none"]

(***************************************************************************)
(* The store: the products repository and the unique index on article      *)
(***************************************************************************)

\* productsRepo.findOneBy({ article })
findByArticle_ByName(a) == {r \in store : r.name = a}

findByArticle(a) == {r \in store : r.article = a}

\* productsRepo.findOneBy({ id })
findOne(id) == {r \in store : r.id = id}

\* @Index(['article'], { unique: true }): a write is accepted only if no
\* OTHER record holds the article.
UniqueIndexOk_NotEnforced(a, id) == TRUE

UniqueIndexOk(a, id) == \A r \in store : r.article = a => r.id = id

\* The entity productsRepo.save(productsRepo.create(data)) inserts.
Entity(data, id) ==
  [id |-> id, article |-> data.article, name |-> data.name,
   brand |-> data.brand, price |-> data.price, color |-> data.color,
   country |-> data.country]

(***************************************************************************)
(* ImportController.importFile                                             *)
(***************************************************************************)

row(p) == rows[p][idx[p]]

\* errors.push(...) / duplicates.push(...)
Push_Unshift(list, e) == <<e>> \o list

Push(list, e) == Append(list, e)

Call(p, op) == calls' = [calls EXCEPT ![p] = Append(@, [idx |-> idx[p], op |-> op])]

\* continue / end of the loop body: on to the next row.
NextRow_Break(p) ==
  /\ idx' = [idx EXCEPT ![p] = Len(rows[p]) + 1]
  /\ pc' = [pc EXCEPT ![p] = "row"]

NextRow(p) ==
  /\ idx' = [idx EXCEPT ![p] = @ + 1]
  /\ pc' = [pc EXCEPT ![p] = "row"]

\* catch (err) { errors.push(`... ${JSON.stringify(row)}: ${err}`) }
CatchRowError_Rethrow(p, err) ==
  /\ pc' = [pc EXCEPT ![p] = "raised"]
  /\ UNCHANGED <<idx, errors>>

CatchRowError(p, err) ==
  /\ errors' = [errors EXCEPT ![p] =
       Push(@, [idx |-> idx[p], kind |-> "row_error", row |-> row(p),
                cause |-> err])]
  /\ NextRow(p)

\* String.prototype.toLowerCase, on the letters file names are made of.
ToLower(c) ==
  CASE c = "C" -> "c" [] c = "S" -> "s" [] c = "V" -> "v" [] c = "T" -> "t"
    [] c = "X" -> "x" [] c = "L" -> "l" [] OTHER -> c

LowerCase(s) == [i \in 1..Len(s) |-> ToLower(s[i])]

\* name.match(/\.(e1|e2|...)$/i): the name ends with a dot and one of exts.
MatchesExtension(nm, exts) ==
  \E e \in exts :
    /\ Len(nm) >= Len(e) + 1
    /\ LowerCase(SubSeq(nm, Len(nm) - Len(e), Len(nm))) = <<".">> \o e

Csv == <<"c", "s", "v">>

Tsv == <<"t", "s", "v">>

Xls == <<"x", "l", "s">>

Xlsx == <<"x", "l", "s", "x">>

\* const allowedMimeTypes = [...]
allowedMimeTypes ==
  {"text/csv", "text/tab-separated-values", "application/vnd.ms-excel",
   "application/vnd.openxmlformats-officedocument.spreadsheetml.sheet"}

\* if (!file || !file.buffer)
NoFile(f) == ~f.present

\* if (!allowedMimeTypes.includes(file.mimetype) &&
\*     !file.originalname.match(/\.(csv|tsv|xls|xlsx)$/i))
UnsupportedFormat_Either(f) ==
  \/ f.mimetype \notin allowedMimeTypes
  \/ ~MatchesExtension(f.originalname, {Csv, Tsv, Xls, Xlsx})

UnsupportedFormat(f) ==
  /\ f.mimetype \notin allowedMimeTypes
  /\ ~MatchesExtension(f.originalname, {Csv, Tsv, Xls, Xlsx})

\* throw new HttpException(message, HttpStatus.BAD_REQUEST)
BadRequest(message) ==
  [status |-> "client_error", code |-> 400, message |-> message]

\* The exception importFile throws before the row loop, or "none": no file,
\* an unsupported format, or the parser (Papa.parse for .csv/.tsv names,
\* XLSX.read otherwise) throwing on the buffer.
EntryError(f) ==
  IF NoFile(f) THEN "no_file"
  ELSE IF UnsupportedFormat(f) THEN "unsupported_format"
  ELSE IF f.malformed THEN "read_error"
  ELSE "none"

\* The request arrives: the file is checked and decoded (the parser throws on
\* a malformed buffer); then the row loop starts on rows[p].
StartImport(p) ==
  /\ pc[p] = "idle"
  /\ IF EntryError(file[p]) = "none"
       THEN /\ pc' = [pc EXCEPT ![p] = "row"]
            /\ UNCHANGED response
       ELSE /\ pc' = [pc EXCEPT ![p] = "rejected"]
            /\ response' = [response EXCEPT ![p] = BadRequest(EntryError(file[p]))]
  /\ UNCHANGED <<store, nextId, file, rows, idx, results, errors, duplicates,
                 calls, added, faultsLeft, clientVars>>

\* if (!article || !name)
RejectRow_ArticleOnly(r) == ~Truthy(article(r))

RejectRow(r) == MissingArticleOrName(r)

\* Loop head and the synchronous part of the body, up to the first await:
\* resolve article and name, reject the row or build productData and call
\* findByArticle.
NormalizeRow(p) ==
  /\ pc[p] = "row"
  /\ idx[p] <= Len(rows[p])
  /\ IF RejectRow(row(p))
       THEN /\ errors' = [errors EXCEPT ![p] =
                 Push(@, [idx |-> idx[p], kind |-> "skipped", row |-> row(p),
                          cause |-> "missing"])]
            /\ NextRow(p)
            /\ UNCHANGED calls
       ELSE /\ pc' = [pc EXCEPT ![p] = "lookup"]
            /\ Call(p, "findByArticle")
            /\ UNCHANGED <<idx, errors>>
  /\ UNCHANGED <<store, nextId, file, rows, results, duplicates, response, added,
                 faultsLeft, clientVars>>

\* if (existing) { duplicates.push(...); continue; }
OnDuplicate_Upsert(p) ==
  /\ duplicates' = [duplicates EXCEPT ![p] =
       Push(@, [idx |-> idx[p], article |-> article(row(p))])]
  /\ store' = {IF r.article = article(row(p))
                 THEN Entity(productData(row(p)), r.id) ELSE r : r \in store}
  /\ NextRow(p)
  /\ UNCHANGED calls

OnDuplicate(p) ==
  /\ duplicates' = [duplicates EXCEPT ![p] =
       Push(@, [idx |-> idx[p], article |-> article(row(p))])]
  /\ NextRow(p)
  /\ UNCHANGED <<store, calls>>

\* const existing = await this.productsService.findByArticle(article)
Lookup(p) ==
  /\ pc[p] = "lookup"
  /\ IF findByArticle(article(row(p))) # {}
       THEN OnDuplicate(p)
       ELSE /\ pc' = [pc EXCEPT ![p] = "create"]
            /\ Call(p, "create")
            /\ UNCHANGED <<store, idx, duplicates>>
  /\ UNCHANGED <<nextId, file, rows, results, errors, response, added,
                 faultsLeft, clientVars>>

\* findByArticle rejects (the store is unreachable).
LookupFails(p) ==
  /\ pc[p] = "lookup"
  /\ faultsLeft > 0
  /\ faultsLeft' = faultsLeft - 1
  /\ CatchRowError(p, "outage")
  /\ UNCHANGED <<store, nextId, file, rows, results, duplicates, response, calls,
                 added, clientVars>>

\* ProductsService.create, first half: the service's own duplicate check.
CreateCheck(p) ==
  /\ pc[p] = "create"
  /\ IF findByArticle(article(row(p))) # {}
       THEN CatchRowError(p, "exists")
       ELSE /\ pc' = [pc EXCEPT ![p] = "save"]
            /\ UNCHANGED <<idx, errors>>
  /\ UNCHANGED <<store, nextId, file, rows, results, duplicates, response, calls,
                 added, faultsLeft, clientVars>>

CreateCheckFails(p) ==
  /\ pc[p] = "create"
  /\ faultsLeft > 0
  /\ faultsLeft' = faultsLeft - 1
  /\ CatchRowError(p, "outage")
  /\ UNCHANGED <<store, nextId, file, rows, results, duplicates, response, calls,
                 added, clientVars>>

\* await this.productsService.create(productData) resolved:
\* results.push(productData)
OnCreated_PushBeforeAwait(p, ok) ==
  /\ results' = [results EXCEPT ![p] =
       Append(@, [idx |-> idx[p], data |-> productData(row(p))])]
  /\ IF ok THEN NextRow(p) /\ UNCHANGED errors
           ELSE CatchRowError(p, "unique")

OnCreated_CountAlways(p, ok) ==
  /\ results' = [results EXCEPT ![p] =
              Append(@, [idx |-> idx[p], data |-> productData(row(p))])]
  /\ NextRow(p)
  /\ UNCHANGED errors

OnCreated(p, ok) ==
  IF ok
    THEN /\ results' = [results EXCEPT ![p] =
              Append(@, [idx |-> idx[p], data |-> productData(row(p))])]
         /\ NextRow(p)
         /\ UNCHANGED errors
    ELSE /\ CatchRowError(p, "unique")
         /\ UNCHANGED results

\* ProductsService.create, second half: productsRepo.save(product); the
\* INSERT is refused when the unique index is violated.
Save(p) ==
  /\ pc[p] = "save"
  /\ LET ok == UniqueIndexOk(article(row(p)), 0)
     IN  /\ IF ok
              THEN /\ store' = store \cup {Entity(productData(row(p)), nextId)}
                   /\ nextId' = nextId + 1
                   /\ added' = [added EXCEPT ![p] = @ \cup {nextId}]
              ELSE UNCHANGED <<store, nextId, added>>
         /\ OnCreated(p, ok)
  /\ UNCHANGED <<file, rows, duplicates, response, calls, faultsLeft, clientVars>>

SaveFails(p) ==
  /\ pc[p] = "save"
  /\ faultsLeft > 0
  /\ faultsLeft' = faultsLeft - 1
  /\ CatchRowError(p, "outage")
  /\ UNCHANGED <<store, nextId, file, rows, results, duplicates, response, calls,
                 added, clientVars>>

\* errors.length ? errors : undefined
ListOrUndefined(list) ==
  IF Len(list) > 0 THEN [defined |-> TRUE, list |-> list]
                   ELSE [defined |-> FALSE]

\* return { imported: results.length, errors: ..., duplicates: ... }
Return(p) ==
  /\ pc[p] = "row"
  /\ idx[p] > Len(rows[p])
  /\ pc' = [pc EXCEPT ![p] = "done"]
  /\ response' = [response EXCEPT ![p] =
       [status |-> "ok", imported |-> Len(results[p]),
        errors |-> ListOrUndefined(errors[p]),
        duplicates |-> ListOrUndefined(duplicates[p])]]
  /\ UNCHANGED <<store, nextId, file, rows, idx, results, errors, duplicates,
                 calls, added, faultsLeft, clientVars>>

(***************************************************************************)
(* Direct requests: ProductsController create / update / remove            *)
(***************************************************************************)

ClientArticles == {X1, X2}

ClientIds == {1, 2}

\* The bodies of POST /products requests.
ClientCreateData ==
  {[article |-> a, name |-> <<"d">>, brand |-> Undefined, price |-> NoPrice,
    color |-> Undefined, country |-> Undefined] : a \in ClientArticles}

\* The bodies of PUT /products/:id requests (UpdateProductDto is partial).
ClientUpdateData ==
  {[article |-> a, name |-> Undefined] : a \in ClientArticles}
    \cup {[article |-> Undefined, name |-> <<"u">>]}

ClientDone ==
  /\ cpc' = "idle"
  /\ carg' = NoArg

\* POST /products arrives: ProductsService.create(data) starts.
ClientCreate(data) ==
  /\ cpc = "idle"
  /\ opsLeft > 0
  /\ opsLeft' = opsLeft - 1
  /\ cpc' = "create_check"
  /\ carg' = [op |-> "create", data |-> data]
  /\ UNCHANGED <<store, nextId, importVars, faultsLeft>>

\* ProductsService.create: const existing = await this.findByArticle(...)
ClientCreateCheck ==
  /\ cpc = "create_check"
  /\ IF findByArticle(carg.data.article) # {}
       THEN ClientDone
       ELSE cpc' = "create_save" /\ UNCHANGED carg
  /\ UNCHANGED <<store, nextId, importVars, faultsLeft, opsLeft>>

\* ProductsService.create: return this.productsRepo.save(product)
ClientCreateSave ==
  /\ cpc = "create_save"
  /\ IF UniqueIndexOk(carg.data.article, 0)
       THEN /\ store' = store \cup {Entity(carg.data, nextId)}
            /\ nextId' = nextId + 1
       ELSE UNCHANGED <<store, nextId>>
  /\ ClientDone
  /\ UNCHANGED <<importVars, faultsLeft, opsLeft>>

\* PUT /products/:id arrives: ProductsService.update(id, data) starts.
ClientUpdate(id, data) ==
  /\ cpc = "idle"
  /\ opsLeft > 0
  /\ opsLeft' = opsLeft - 1
  /\ cpc' = "update_find"
  /\ carg' = [op |-> "update", id |-> id, data |-> data]
  /\ UNCHANGED <<store, nextId, importVars, faultsLeft>>

\* const existingProduct = await this.findOne(id); NotFound when absent;
\* the duplicate check is needed only when the article changes.
UpdateFindOne ==
  /\ cpc = "update_find"
  /\ IF findOne(carg.id) = {}
       THEN ClientDone
       ELSE LET existingProduct == CHOOSE r \in findOne(carg.id) : TRUE
            IN  /\ cpc' = IF Truthy(carg.data.article)
                             /\ carg.data.article # existingProduct.article
                            THEN "update_dup" ELSE "update_write"
                /\ UNCHANGED carg
  /\ UNCHANGED <<store, nextId, importVars, faultsLeft, opsLeft>>

\* const duplicate = await this.findByArticle(data.article)
UpdateDuplicateCheck ==
  /\ cpc = "update_dup"
  /\ IF findByArticle(carg.data.article) # {}
       THEN ClientDone
       ELSE cpc' = "update_write" /\ UNCHANGED carg
  /\ UNCHANGED <<store, nextId, importVars, faultsLeft, opsLeft>>

\* The record after UPDATE ... SET <the fields data carries>.
Updated(r, data) ==
  [r EXCEPT !.article = IF data.article # Undefined THEN data.article ELSE @,
            !.name = IF data.name # Undefined THEN data.name ELSE @]

\* await this.productsRepo.update(id, data): an UPDATE of the rows with that
\* id (none, if it was deleted meanwhile), refused when the unique index is
\* violated. The findOne that follows only reads.
UpdateWrite ==
  /\ cpc = "update_write"
  /\ IF carg.data.article = Undefined \/ UniqueIndexOk(carg.data.article, carg.id)
       THEN store' = {IF r.id = carg.id THEN Updated(r, carg.data) ELSE r :
                        r \in store}
       ELSE UNCHANGED store
  /\ ClientDone
  /\ UNCHANGED <<nextId, importVars, faultsLeft, opsLeft>>

\* DELETE /products/:id arrives: ProductsService.remove(id) starts.
ClientRemove(id) ==
  /\ cpc = "idle"
  /\ opsLeft > 0
  /\ opsLeft' = opsLeft - 1
  /\ cpc' = "remove_find"
  /\ carg' = [op |-> "remove", id |-> id]
  /\ UNCHANGED <<store, nextId, importVars, faultsLeft>>

\* const product = await this.findOne(id); NotFound when absent.
RemoveFindOne ==
  /\ cpc = "remove_find"
  /\ IF findOne(carg.id) = {}
       THEN ClientDone
       ELSE cpc' = "remove_delete" /\ UNCHANGED carg
  /\ UNCHANGED <<store, nextId, importVars, faultsLeft, opsLeft>>

\* await this.productsRepo.delete(id)
RemoveDelete ==
  /\ cpc = "remove_delete"
  /\ store' = {r \in store : r.id # carg.id}
  /\ ClientDone
  /\ UNCHANGED <<nextId, importVars, faultsLeft, opsLeft>>

(***************************************************************************)
(* Specifications                                                          *)
(***************************************************************************)

\* An accepted upload of a well-formed CSV file.
CsvUpload ==
  [present |-> TRUE, mimetype |-> "text/csv",
   originalname |-> <<"d", ".", "c", "s", "v">>, malformed |-> FALSE]

InitUploads(uploads, files, faults, ops) ==
  /\ store = {}
  /\ nextId = 1
  /\ pc = [p \in Importers |-> "idle"]
  /\ file \in uploads
  /\ rows \in files
  /\ idx = [p \in Importers |-> 1]
  /\ results = [p \in Importers |-> <<>>]
  /\ errors = [p \in Importers |-> <<>>]
  /\ duplicates = [p \in Importers |-> <<>>]
  /\ response = [p \in Importers |-> NoResponse]
  /\ calls = [p \in Importers |-> <<>>]
  /\ added = [p \in Importers |-> {}]
  /\ faultsLeft = faults
  /\ cpc = "idle"
  /\ carg = NoArg
  /\ opsLeft = ops

InitWith(files, faults, ops) ==
  InitUploads({[p \in Importers |-> CsvUpload]}, files, faults, ops)

\* Concurrent imports of any files, direct requests and store outages.
Init ==
  InitWith({f \in [Importers -> Files] : Len(f["i2"]) <= MaxRowsSecond},
           MaxFaults, MaxClientOps)

ImportStep(p) ==
  \/ StartImport(p)
  \/ NormalizeRow(p)
  \/ Lookup(p)
  \/ CreateCheck(p)
  \/ Save(p)
  \/ Return(p)

ImportFault(p) ==
  \/ LookupFails(p)
  \/ CreateCheckFails(p)
  \/ SaveFails(p)

ClientStep ==
  \/ \E data \in ClientCreateData : ClientCreate(data)
  \/ ClientCreateCheck
  \/ ClientCreateSave
  \/ \E id \in ClientIds, data \in ClientUpdateData : ClientUpdate(id, data)
  \/ UpdateFindOne
  \/ UpdateDuplicateCheck
  \/ UpdateWrite
  \/ \E id \in ClientIds : ClientRemove(id)
  \/ RemoveFindOne
  \/ RemoveDelete

Next ==
  \/ \E p \in Importers : ImportStep(p)
  \/ \E p \in Importers : ImportFault(p)
  \/ ClientStep

Spec == Init /\ [][Next]_vars

\* Two concurrent imports whose files both carry a valid row with article
\* X1, on an empty store, with no other writer and no outage.
HasValidRow(f, a) ==
  \E i \in 1..Len(f) : ~RejectRow(f[i]) /\ article(f[i]) = a

InitRace ==
  InitWith({f \in [Importers -> Files] :
              \A p \in Importers : HasValidRow(f[p], X1)}, 0, 0)

NextRace == \E p \in Importers : ImportStep(p)

SpecRace == InitRace /\ [][NextRace]_vars

\* A further valid row, third article, other header synonyms.
RowE == [sku |-> <<"X", "3">>, Nazvanie |-> <<"e">>, Cena |-> <<"7">>]

\* Files of valid rows with pairwise distinct articles.
DistinctFiles ==
  {f \in SeqsUpTo({RowA, RowB, RowC, RowE}, MaxRows) :
     \A i, j \in 1..Len(f) : i # j => article(f[i]) # article(f[j])}

\* The same file imported twice, the second import after the first has
\* returned, with no other writer and no outage.
InitTwice ==
  InitWith({f \in [Importers -> DistinctFiles] : f["i1"] = f["i2"]}, 0, 0)

NextTwice ==
  \E p \in Importers :
    /\ p = "i2" => pc["i1"] = "done"
    /\ ImportStep(p)

SpecTwice == InitTwice /\ [][NextTwice]_vars

\* One import of any file, with direct requests and store outages around it.
InitOne ==
  InitWith({f \in [Importers -> Files] : Len(f["i2"]) = 0},
           MaxFaults, MaxClientOps)

NextOne ==
  \/ \E p \in {"i1"} : ImportStep(p)
  \/ \E p \in {"i1"} : ImportFault(p)
  \/ ClientStep

SpecOne == InitOne /\ [][NextOne]_vars

(***************************************************************************)
(* Normalization inputs: one import of a one-row file, the row drawn from  *)
(* rows that populate several synonyms of a field, and from price texts.   *)
(***************************************************************************)

\* Longest generated price text.
MaxPriceLen == 3

A1 == <<"A", "1">>

A2 == <<"A", "2">>

\* Cells: empty, blank, plain, padded.
CellTexts == {<<>>, <<" ">>, A1, A2, <<" ", "A", "3", " ">>}

\* Every row over a subset of the headers hs, its cells drawn from cs.
RowsOver(hs, cs) == UNION {[K -> cs] : K \in SUBSET hs}

PriceChars == {"1", "5", ",", ".", " ", "r"}

\* "1 234,56 rub." (the currency word in Cyrillic in the original).
PriceExample ==
  <<"1", " ", "2", "3", "4", ",", "5", "6", " ", "r", "u", "b", ".">>

\* "N/A"
PriceNA == <<"N", "/", "A">>

PriceTexts ==
  SeqsUpTo(PriceChars, MaxPriceLen)
    \cup {PriceExample, PriceNA, <<"1", ",", "2", ",", "3">>,
          <<"1", " ", "2", "3", "4", ",", "5", "6">>}

Merge(f, g) == [k \in DOMAIN f \cup DOMAIN g |->
                  IF k \in DOMAIN f THEN f[k] ELSE g[k]]

NormRows ==
  {Merge(f, [Name |-> <<"n">>]) :
     f \in RowsOver({"Artikul", "Article", "SKU"}, CellTexts)}
  \cup {Merge(f, [Artikul |-> A1]) :
     f \in RowsOver({"Nazvanie tovara", "Name", "product name"}, CellTexts)}
  \cup {Merge(f, [Artikul |-> A1, Name |-> <<"n">>]) :
     f \in RowsOver({"Brend", "Brand", "brand"}, CellTexts)
       \cup RowsOver({"Cvet", "color"}, CellTexts)
       \cup RowsOver({"Strana-izgotovitel", "Country"}, CellTexts)
       \cup RowsOver({"Cena, rub.*"}, PriceTexts)
       \cup RowsOver({"Cena", "price"}, {<<>>, <<" ">>, <<"7">>, <<"8", "r">>})}

InitNorm ==
  InitWith({f \in [Importers -> SeqsUpTo(NormRows, 1)] :
              Len(f["i1"]) = 1 /\ Len(f["i2"]) = 0}, 0, 0)

NextNorm == \E p \in {"i1"} : ImportStep(p)

SpecNorm == InitNorm /\ [][NextNorm]_vars

(***************************************************************************)
(* Uploads: one import of any upload (absent, any declared type and name,  *)
(* well-formed or not) with store outages during the row loop.             *)
(***************************************************************************)

NameCsv == <<"d", ".", "c", "s", "v">>

NameTsvUpper == <<"d", ".", "T", "S", "V">>

NameXlsx == <<"r", ".", "x", "l", "s", "x">>

NameXls == <<"o", ".", "X", "l", "s">>

NameTxt == <<"n", ".", "t", "x", "t">>

\* "csv": the letters with no dot before them.
NameNoDot == <<"c", "s", "v">>

\* "a.csv.txt": the extension is not at the end.
NameCsvTxt == <<"a", ".", "c", "s", "v", ".", "t", "x", "t">>

UploadNames ==
  {NameCsv, NameTsvUpper, NameXlsx, NameXls, NameTxt, NameNoDot, NameCsvTxt}

UploadMimeTypes == {"text/csv", "application/vnd.ms-excel", "application/pdf"}

Uploads ==
  [present : BOOLEAN, mimetype : UploadMimeTypes, originalname : UploadNames,
   malformed : BOOLEAN]

InitEntry ==
  InitUploads({f \in [Importers -> Uploads] : f["i2"] = CsvUpload},
              {f \in [Importers -> Files] : Len(f["i2"]) = 0},
              MaxFaults, 0)

NextEntry ==
  \/ \E p \in {"i1"} : ImportStep(p)
  \/ \E p \in {"i1"} : ImportFault(p)

SpecEntry == InitEntry /\ [][NextEntry]_vars

(***************************************************************************)
(* Properties                                                              *)
(***************************************************************************)

Done(p) == pc[p] = "done"

\* Positions of the entries of list that row i produced.
EntriesOf(list, i) == {k \in 1..Len(list) : list[k].idx = i}

Imported(p, i) == EntriesOf(results[p], i) # {}

\* Rows of import p that carry the article a and pass normalization.
ValidRowsWith(p, a) ==
  {i \in 1..Len(rows[p]) : ~MissingArticleOrName(rows[p][i])
                             /\ article(rows[p][i]) = a}

\* C1: in every reachable state no two stored records have the same
\* article, under any interleaving of imports, direct creates, updates and
\* deletes (and store outages), the store enforcing its unique index.
C1_ArticleUnique ==
  \A r1, r2 \in store : r1.article = r2.article => r1 = r2

\* C1 witness: two imports raced for one article, both passed both duplicate
\* checks, and the unique index refused the second INSERT.
C1_Witness ==
  /\ Cardinality(store) >= 1
  /\ \E p \in Importers : \E k \in 1..Len(errors[p]) :
       errors[p][k].cause = "unique"

\* Rows with article X1 of both imports, as <<import, row index>>.
X1Rows == {<<p, i>> \in Importers \X (1..MaxRows + 1) : i \in ValidRowsWith(p, X1)}

\* C2: two concurrent imports each carrying a valid row with the article X1
\* that the store does not hold: under every interleaving exactly one of the
\* X1 rows is counted as imported, every other X1 row produces exactly one
\* entry in errors or duplicates, neither request fails as a whole, and the
\* store never holds two records with article X1.
C2_ConcurrentDuplicate ==
  /\ \A p \in Importers : pc[p] # "raised"
  /\ Cardinality(findByArticle(X1)) <= 1
  /\ (\A p \in Importers : Done(p)) =>
       /\ \A p \in Importers : response[p].status = "ok"
       /\ Cardinality({x \in X1Rows : Imported(x[1], x[2])}) = 1
       /\ \A x \in X1Rows :
            Cardinality(EntriesOf(errors[x[1]], x[2]))
              + Cardinality(EntriesOf(duplicates[x[1]], x[2]))
              = IF Imported(x[1], x[2]) THEN 0 ELSE 1

\* C2 witness: both imports have returned, the loser of the race having got
\* past its own lookup and been refused at persist time.
C2_Witness ==
  /\ \A p \in Importers : Done(p)
  /\ \E p \in Importers : \E k \in 1..Len(errors[p]) :
       /\ errors[p][k].kind = "row_error"
       /\ article(errors[p][k].row) = X1

\* Number of entries of an optional list of a response.
Count(opt) == IF opt.defined THEN Len(opt.list) ELSE 0

\* C3: a file of N valid rows with pairwise distinct articles, none in the
\* store, no other writer, no outage: the first import returns imported = N
\* with no errors and no duplicates; the second import of the same file
\* returns imported = 0 and N duplicates.
C3_ImportTwice ==
  /\ Done("i1") =>
       /\ response["i1"].imported = Len(rows["i1"])
       /\ ~response["i1"].errors.defined
       /\ ~response["i1"].duplicates.defined
  /\ Done("i2") =>
       /\ response["i2"].imported = 0
       /\ Count(response["i2"].duplicates) = Len(rows["i2"])
       /\ ~response["i2"].errors.defined

\* C3 witness: both imports of a file of MaxRows rows have returned.
C3_Witness ==
  /\ Done("i1") /\ Done("i2")
  /\ Len(rows["i1"]) = MaxRows
  /\ response["i2"].duplicates.defined

\* Row i of import p has produced an outcome.
Processed(p, i) ==
  \/ EntriesOf(results[p], i) # {}
  \/ EntriesOf(errors[p], i) # {}
  \/ EntriesOf(duplicates[p], i) # {}

\* C4: after decoding, no row-level condition (a rejection, a duplicate, a
\* lookup or create that raises) aborts the import: the request never
\* raises, every row before the loop index has been processed, and a
\* returned import has processed every row of the file.
C4_NoRowAborts ==
  \A p \in Importers :
    /\ pc[p] # "raised"
    /\ idx[p] <= Len(rows[p]) + 1
    /\ \A i \in 1..(idx[p] - 1) : Processed(p, i)
    /\ Done(p) =>
         /\ response[p].status = "ok"
         /\ idx[p] = Len(rows[p]) + 1

\* C4 witness: a returned import whose first row failed in the store and
\* whose second row was then imported.
C4_Witness ==
  \E p \in Importers :
    /\ Done(p)
    /\ \E k \in EntriesOf(errors[p], 1) : errors[p][k].kind = "row_error"
    /\ Imported(p, 2)

\* The article or the name resolves to absent or to blank.
Blank(v) == v = Undefined \/ v = <<>>

Rejected(r) == Blank(article(r)) \/ Blank(name(r))

\* Import p, suspended at the loop head with a row left, takes its step.
RowStep(p) ==
  /\ pc[p] = "row"
  /\ idx[p] <= Len(rows[p])
  /\ (pc'[p] # pc[p] \/ idx'[p] # idx[p])

CallsOf(p, i, op) == {k \in 1..Len(calls[p]) : calls[p][k] = [idx |-> i, op |-> op]}

C5_Rejection ==
  \A p \in Importers :
    (RowStep(p) /\ Rejected(row(p))) =>
      /\ Len(errors'[p]) = Len(errors[p]) + 1
      /\ SubSeq(errors'[p], 1, Len(errors[p])) = errors[p]
      /\ errors'[p][Len(errors'[p])].row = row(p)
      /\ errors'[p][Len(errors'[p])].idx = idx[p]
      /\ idx'[p] = idx[p] + 1
      /\ pc'[p] = "row"
      /\ UNCHANGED <<store, nextId, calls, results, duplicates, added>>

C5_Rejected ==
  \A p \in Importers : \A i \in 1..(idx[p] - 1) :
    Rejected(rows[p][i]) =>
      /\ Cardinality(EntriesOf(errors[p], i)) = 1
      /\ CallsOf(p, i, "findByArticle") = {}
      /\ CallsOf(p, i, "create") = {}
      /\ EntriesOf(results[p], i) = {}
      /\ EntriesOf(duplicates[p], i) = {}

\* C5: a row whose article or name resolves to absent or blank is rejected:
\* exactly one entry is added to errors, embedding the row; no lookup and no
\* create is issued for it; the step changes nothing else (store, results,
\* duplicates), and the loop goes on to the next row.
C5_RejectedRow == []C5_Rejected /\ [][C5_Rejection]_vars

\* C5 witness: a returned import whose first row was rejected and whose
\* second row was imported.
C5_Witness ==
  \E p \in Importers :
    /\ Done(p)
    /\ Len(rows[p]) = 2
    /\ Rejected(rows[p][1])
    /\ Imported(p, 2)

\* C6: importedCount is the number of rows whose create succeeded, i.e. of
\* records this import inserted; at most one create is issued per row; a row
\* whose create failed has exactly one errors entry, embedding the row (and
\* so its article) and the cause, and is not counted.
C6_ImportedCount ==
  \A p \in Importers :
    /\ Len(results[p]) = Cardinality(added[p])
    /\ Done(p) => response[p].imported = Cardinality(added[p])
    /\ \A i \in 1..Len(rows[p]) :
         /\ Cardinality(CallsOf(p, i, "create")) <= 1
         /\ Cardinality(EntriesOf(results[p], i)) <= 1
         /\ Imported(p, i) =>
              /\ CallsOf(p, i, "create") # {}
              /\ EntriesOf(errors[p], i) = {}
         /\ (i < idx[p] /\ CallsOf(p, i, "create") # {} /\ ~Imported(p, i)) =>
              /\ Cardinality(EntriesOf(errors[p], i)) = 1
              /\ \A k \in EntriesOf(errors[p], i) :
                   /\ errors[p][k].kind = "row_error"
                   /\ errors[p][k].row = rows[p][i]
                   /\ errors[p][k].cause \in {"exists", "unique", "outage"}

\* C6 witness: a returned import with one row imported and one row whose
\* create was refused by the unique index.
C6_Witness ==
  \E p \in Importers :
    /\ Done(p)
    /\ response[p].imported = 1
    /\ \E k \in 1..Len(errors[p]) : errors[p][k].cause = "unique"

Increasing(list) ==
  \A k, l \in 1..Len(list) : k < l => list[k].idx < list[l].idx

\* C7: rows are processed in input order (the service calls are issued in
\* row order), and the entries of errors and of duplicates, also as
\* returned, are in the order of the rows that produced them, rejections and
\* persistence failures mixed.
C7_InputOrder ==
  \A p \in Importers :
    /\ Increasing(errors[p])
    /\ Increasing(duplicates[p])
    /\ Increasing(results[p])
    /\ \A k, l \in 1..Len(calls[p]) : k < l => calls[p][k].idx <= calls[p][l].idx
    /\ \A k \in 1..Len(calls[p]) : calls[p][k].idx <= idx[p]
    /\ Done(p) =>
         /\ response[p].errors.defined => response[p].errors.list = errors[p]
         /\ response[p].duplicates.defined =>
              response[p].duplicates.list = duplicates[p]

\* C7 witness: a returned errors list that mixes a persistence failure and a
\* rejection.
C7_Witness ==
  \E p \in Importers :
    /\ Done(p)
    /\ response[p].errors.defined
    /\ \E k, l \in 1..Len(response[p].errors.list) :
         /\ response[p].errors.list[k].kind = "row_error"
         /\ response[p].errors.list[l].kind = "skipped"
         /\ k < l

\* Import p's lookup returns and finds the article of its row in the store.
LookupFinds(p) ==
  /\ pc[p] = "lookup"
  /\ findByArticle(article(row(p))) # {}
  /\ pc'[p] # pc[p]
  /\ errors'[p] = errors[p]

C8_Skip ==
  \A p \in Importers :
    /\ LookupFinds(p) =>
         /\ duplicates'[p] =
              Append(duplicates[p], [idx |-> idx[p], article |-> article(row(p))])
         /\ idx'[p] = idx[p] + 1
         /\ UNCHANGED <<store, nextId, results, errors, calls, added>>
    /\ duplicates'[p] # duplicates[p] =>
         /\ LookupFinds(p)
         /\ store' = store

C8_Skipped ==
  \A p \in Importers : \A k \in 1..Len(duplicates[p]) :
    /\ CallsOf(p, duplicates[p][k].idx, "create") = {}
    /\ EntriesOf(results[p], duplicates[p][k].idx) = {}
    /\ EntriesOf(errors[p], duplicates[p][k].idx) = {}
    /\ duplicates[p][k].article = article(rows[p][duplicates[p][k].idx])

\* C8: a row whose article is found in the store at lookup time is a pure
\* skip: one duplicate message naming the article is added, no create is
\* issued, no stored record changes, results and errors are untouched.
C8_DuplicateIsSkip == []C8_Skipped /\ [][C8_Skip]_vars

\* C8 witness: a row was skipped as a duplicate of a stored record whose
\* other fields differ from the row's.
C8_Witness ==
  \E p \in Importers : \E k \in 1..Len(duplicates[p]) :
    \E r \in findByArticle(duplicates[p][k].article) :
      r.name # name(rows[p][duplicates[p][k].idx])

\* The described price procedure: strip all but digits, comma and dot,
\* replace comma by dot, parse; omitted when empty or not numeric.
RECURSIVE CommasToDots(_)
CommasToDots(s) ==
  IF s = <<>> THEN <<>>
  ELSE <<IF Head(s) = "," THEN "." ELSE Head(s)>> \o CommasToDots(Tail(s))

DescribedPrice(t) ==
  LET c == CommasToDots(SelectSeq(t, LAMBDA ch : ch \in Digits \cup {",", "."}))
  IN  IF c = <<>> \/ Number(c) = NaN THEN NoPrice ELSE Number(c)

\* The rows of import p that carry their price text under "Cena, rub.*".
PricedRows(p) ==
  {i \in 1..Len(rows[p]) : DOMAIN rows[p][i] = {"Artikul", "Name", "Cena, rub.*"}}

PriceText(p, i) == rows[p][i]["Cena, rub.*"]

\* The price the import stored for its row i.
ImportedPrice(p, i) ==
  LET k == CHOOSE k \in EntriesOf(results[p], i) : TRUE
  IN  results[p][k].data.price

\* The procedure of C9 without its example: the described procedure is what
\* the code computes, and a row with article and name is imported whatever
\* its price text.
PriceAsDescribed ==
  \A p \in Importers : Done(p) =>
    \A i \in PricedRows(p) :
      /\ Imported(p, i)
      /\ ImportedPrice(p, i) = DescribedPrice(PriceText(p, i))

\* C9 (as claimed): the price text is stripped of every character that is
\* not a digit, comma or dot, comma becomes dot, the result is parsed, so
\* that "1 234,56 rub." yields 1234.56; an empty or non-numeric cleaned text
\* ("N/A") omits the price and the row is still imported.
C9_PriceNormalization ==
  \A p \in Importers : Done(p) =>
    \A i \in PricedRows(p) :
      /\ Imported(p, i)
      /\ PriceText(p, i) = PriceExample => ImportedPrice(p, i) = <<123456, 2>>
      /\ PriceText(p, i) = PriceNA => ImportedPrice(p, i) = NoPrice
      /\ PriceText(p, i) # PriceExample =>
           ImportedPrice(p, i) = DescribedPrice(PriceText(p, i))

\* Alias resolution as described: the trimmed value of the first synonym, in
\* preference order, whose cell is non-empty.
NonEmptyAt(r, keys) ==
  {n \in 1..Len(keys) : Cell(r, keys[n]) # Undefined /\ Cell(r, keys[n]) # <<>>}

FirstNonEmpty(r, keys) ==
  IF NonEmptyAt(r, keys) = {} THEN Undefined
  ELSE LET n == CHOOSE n \in NonEmptyAt(r, keys) :
                  \A m \in NonEmptyAt(r, keys) : n <= m
       IN  Trim(Cell(r, keys[n]))

\* No synonym column is present, or all of them are blank.
AllBlank(r, keys) ==
  \A n \in 1..Len(keys) :
    Cell(r, keys[n]) = Undefined \/ Trim(Cell(r, keys[n])) = <<>>

\* v is what the description allows for the field: a defined value is the
\* first non-empty synonym trimmed, and undefined is returned only when no
\* synonym is present or all are blank.
ResolvedAsDescribed(v, r, keys) ==
  /\ v # Undefined => v = FirstNonEmpty(r, keys)
  /\ v = Undefined => AllBlank(r, keys)

\* C10 (as claimed): for every row and every canonical field the resolved
\* value is the trimmed first non-empty synonym, and undefined only when no
\* synonym is present or all are blank; Artikul = A1 with SKU = A2 resolves
\* article to A1.
C10_AliasResolution ==
  \A p \in Importers : \A k \in 1..Len(results[p]) :
    LET r == rows[p][results[p][k].idx]
        d == results[p][k].data
    IN  /\ ResolvedAsDescribed(d.article, r, ArticleKeys)
        /\ ResolvedAsDescribed(d.name, r, NameKeys)
        /\ ResolvedAsDescribed(d.brand, r, BrandKeys)
        /\ ResolvedAsDescribed(d.color, r, ColorKeys)
        /\ ResolvedAsDescribed(d.country, r, CountryKeys)
        /\ (Cell(r, "Artikul") = A1 /\ Cell(r, "SKU") = A2) => d.article = A1

\* The part of C10 about the required fields alone.
RequiredFieldsAsDescribed ==
  \A p \in Importers : \A k \in 1..Len(results[p]) :
    LET r == rows[p][results[p][k].idx]
        d == results[p][k].data
    IN  /\ ResolvedAsDescribed(d.article, r, ArticleKeys)
        /\ ResolvedAsDescribed(d.name, r, NameKeys)
        /\ (Cell(r, "Artikul") = A1 /\ Cell(r, "SKU") = A2) => d.article = A1

\* A store outage hit a row of import p.
OutageHit(p) == \E k \in 1..Len(errors[p]) : errors[p][k].cause = "outage"

\* The request of import p is over (it returned or it raised).
Finished(p) == pc[p] \in {"done", "rejected", "raised"}

\* The upload names whose extension is csv, tsv, xls or xlsx.
SupportedNames == {NameCsv, NameTsvUpper, NameXlsx, NameXls}

\* The declared types the entry point accepts.
SupportedMimeTypes ==
  {"text/csv", "text/tab-separated-values", "application/vnd.ms-excel",
   "application/vnd.openxmlformats-officedocument.spreadsheetml.sheet"}

Supported(f) ==
  f.mimetype \in SupportedMimeTypes \/ f.originalname \in SupportedNames

\* A missing file, an unsupported format and a decode failure end the
\* request of p with a client error, and nothing else does.
ClientErrors(p) ==
  pc[p] # "idle" =>
    /\ ~file[p].present =>
         pc[p] = "rejected" /\ response[p] = BadRequest("no_file")
    /\ (file[p].present /\ ~Supported(file[p])) =>
         pc[p] = "rejected" /\ response[p] = BadRequest("unsupported_format")
    /\ (file[p].present /\ Supported(file[p]) /\ file[p].malformed) =>
         pc[p] = "rejected" /\ response[p] = BadRequest("read_error")
    /\ (file[p].present /\ Supported(file[p]) /\ ~file[p].malformed) =>
         pc[p] # "rejected" /\ response[p].status \in {"pending", "ok"}

\* C11 (as claimed): a store outage during an import makes the entry point
\* report a server error, while a missing file, an unsupported format and a
\* decode failure are reported as client errors.
C11_OutageIsServerError ==
  \A p \in Importers :
    /\ ClientErrors(p)
    /\ (Finished(p) /\ OutageHit(p)) => response[p].status = "server_error"

\* C11 (amended): a missing file, an unsupported format and a decode failure
\* are reported as client errors (400); a store outage during the row loop is
\* not reported as a server error: the row gets an errors entry and the
\* request returns its Import Outcome, that entry in its errors list.
C11_OutageIsRowError ==
  \A p \in Importers :
    /\ ClientErrors(p)
    /\ pc[p] # "raised"
    /\ response[p].status # "server_error"
    /\ (Done(p) /\ OutageHit(p)) =>
         /\ response[p].status = "ok"
         /\ response[p].errors.defined
         /\ \E k \in 1..Len(response[p].errors.list) :
              response[p].errors.list[k].cause = "outage"

\* C11 witness: an import hit by an outage has returned its outcome.
C11_Witness ==
  \E p \in Importers :
    /\ Done(p)
    /\ OutageHit(p)
    /\ response[p].status = "ok"
    /\ Len(rows[p]) = MaxRows

\* Entries row i of import p produced, over the three lists.
Outcomes(p, i) ==
  Cardinality(EntriesOf(results[p], i))
    + Cardinality(EntriesOf(errors[p], i))
    + Cardinality(EntriesOf(duplicates[p], i))

\* C12: every decoded row yields exactly one outcome: a completed import of
\* R rows returns imported + number of errors + number of duplicates = R (an
\* omitted list counting as zero), whatever the store does (outages,
\* concurrent writers); while the import runs, every finished row has one
\* outcome and no other row has any.
C12_OneOutcomePerRow ==
  \A p \in Importers :
    /\ \A i \in 1..Len(rows[p]) :
         Outcomes(p, i) = IF i < idx[p] THEN 1 ELSE 0
    /\ Len(results[p]) + Len(errors[p]) + Len(duplicates[p]) = idx[p] - 1
    /\ Done(p) =>
         response[p].imported + Count(response[p].errors)
           + Count(response[p].duplicates) = Len(rows[p])

\* C12 witness: a completed import of MaxRows rows with an imported row and
\* an errors entry caused by the store, one list omitted.
C12_Witness ==
  \E p \in Importers :
    /\ Done(p)
    /\ Len(rows[p]) = MaxRows
    /\ response[p].imported >= 1
    /\ \E k \in 1..Len(errors[p]) : errors[p][k].kind = "row_error"
    /\ ~response[p].duplicates.defined

====
